---- MODULE Spec2Model ----
(***************************************************************************)
(* A model of package pair (pair.go) and of its polling client             *)
(* (examples/query.go).                                                    *)
(*                                                                         *)
(* The Sensor is modelled with its three fields, its mutex and a heap of   *)
(* Status objects, so that LastSample is a pointer as in the source.       *)
(* Every exported method is a short sequence of steps of a thread; the     *)
(* steps are cut where another goroutine can interleave (before a Lock,    *)
(* around the network fetch).                                              *)
(*                                                                         *)
(* float64 values are modelled by integers: the readings the accessors use *)
(* are JSON integers, and the coefficients are drawn from integer          *)
(* sequences.  time.Duration keeps its width: it is a 64 bit two's         *)
(* complement number, held as four 16 bit limbs, least significant first.  *)
(***************************************************************************)
EXTENDS Integers, Sequences, FiniteSets, TLC

\* ------------------------------------------------------------------ bounds

\* Response bodies the device may send (a Status is allocated for each).
MaxServed == 2

\* Consecutive failed Refresh calls the poller may see in one run.
MaxFails == 58

\* Largest value of the --retry flag.
MaxRetry == 2

\* The longest coefficient sequence, the largest coefficient and the largest
\* raw reading (both in absolute value) given to the calibration polynomial.
MaxLen == 3
MaxCoef == 2
MaxRaw == 3

\* ------------------------------------------------------------ the threads

\* The goroutine of examples/query.go.
Main == "main"

\* Goroutines of a program that shares one Sensor between them.
Clients == {"a", "b"}

Threads == Clients \cup {Main}

\* --------------------------------------------------------- Status objects

\* The nil pointer; the objects of the heap are numbered from 1.
NIL == 0

\* The fields of Status that the package reads.
Fields ==
  {"CurrentTempF", "CurrentDewpointF", "CurrentHumidity", "Pressure",
   "PM25Aqi", "PM25AqiB"}

FieldNo(f) ==
  CASE f = "CurrentTempF" -> 1
    [] f = "CurrentDewpointF" -> 2
    [] f = "CurrentHumidity" -> 3
    [] f = "Pressure" -> 4
    [] f = "PM25Aqi" -> 5
    [] f = "PM25AqiB" -> 6

\* &Status{}: every field holds its zero value.
ZeroStatus == [f \in Fields |-> 0]

\* The value of field f in the n-th document the device serves: each
\* document gives every field a value no other document gives it.
DocValue(n, f) == 10 * n + FieldNo(f)

\* The documents the device may serve: a Status is allocated for each.
DocIds == 1..MaxServed

\* The fields whose JSON value has the wrong type in a body that does not
\* decode (json.Decoder skips such a field, fills the others and returns the
\* first error); a body that is not JSON at all fills no field.
BadBodies == {{"Pressure"}, {"CurrentTempF", "CurrentHumidity"}}

NoBody == [id |-> 0, syntax |-> FALSE, bad |-> {}]

\* The response bodies the n-th fetch may receive: the document, the document
\* with fields of the wrong type, or text that is not JSON.
Bodies(n) ==
  {[id |-> n, syntax |-> FALSE, bad |-> {}]}
    \cup {[id |-> n, syntax |-> FALSE, bad |-> b] : b \in BadBodies}
    \cup {[id |-> n, syntax |-> TRUE, bad |-> {}]}

\* dec.Decode(status): the object after the call.
DecodeInto(body, obj) ==
  IF body.syntax
    THEN obj
    ELSE [f \in Fields |-> IF f \in body.bad THEN obj[f] ELSE DocValue(body.id, f)]

\* dec.Decode(status): the error it returns.
DecodeErr(body) == IF body.syntax \/ body.bad # {} THEN "decode" ELSE "nil"

\* ------------------------------------------------------------ calibration

\* The values --coef and TempAdjust are given.
Coefs == {<< >>, <<-9, 1>>, <<1, 0, 2>>}

RECURSIVE actualTempLoop(_, _, _, _, _)
\* The loop of actualTemp from coefficient i on, with t and x as they stand.
actualTempLoop(coef, raw, i, t, x) ==
  IF i > Len(coef)
    THEN t
    ELSE actualTempLoop(coef, raw, i + 1, t + coef[i] * x, x * raw)

\* actualTemp with x starting at raw instead of 1: every power one too high.
actualTempFromRaw(coef, raw) ==
  IF Len(coef) = 0 THEN raw ELSE actualTempLoop(coef, raw, 1, 0, raw)

actualTemp(coef, raw) ==
  IF Len(coef) = 0 THEN raw ELSE actualTempLoop(coef, raw, 1, 0, 1)

\* (c - 32) * 5 / 9, as the fraction <<numerator, denominator>>.
FtoC(c) == <<(c - 32) * 5, 9>>

\* ---------------------------------------------------------- time.Duration

\* The base of a limb: 16 bits.
Limb == 256 * 256

\* A Duration of n nanoseconds, for 0 <= n < 2^31.
Dur(n) == <<n % Limb, (n \div Limb) % Limb, 0, 0>>

\* time.Duration(0)
DZero == Dur(0)

\* time.Second, 10^9 nanoseconds.
Second == Dur(1000000000)

\* d * 2 in 64 bit arithmetic: the carry out of the top limb is lost.
Double(d) ==
  LET s1 == 2 * d[1]
      s2 == 2 * d[2] + s1 \div Limb
      s3 == 2 * d[3] + s2 \div Limb
      s4 == 2 * d[4] + s3 \div Limb
  IN  <<s1 % Limb, s2 % Limb, s3 % Limb, s4 % Limb>>

\* d < 0: the sign bit of the top limb is set.
Negative(d) == d[4] >= Limb \div 2

\* ------------------------------------------------------------------ state

VARIABLES
  Addr,        \* Sensor.Addr
  mu,          \* Sensor.mu: "free" or the thread that holds it
  LastSample,  \* Sensor.LastSample: NIL or the address of a Status
  TempPoly,    \* Sensor.TempPoly
  heap,        \* the Status objects allocated so far, by address
  served,      \* the number of documents the device has served
  pc,          \* each thread's position inside the method it is running
  loc,         \* each thread's local variables inside that method
  ret,         \* what each thread's last call returned
  sinceAdjust, \* successful Refresh calls since the last TempAdjust
  flags,       \* query.go: the command line flags
  ppc,         \* query.go: the position of main
  retries,     \* query.go: retries
  bo,          \* query.go: bo
  m,           \* query.go: the readings main has taken for its log line
  sleeping,    \* the time.Sleep call main is in: its kind and duration
  logged,      \* the last line main logged
  run,         \* what main has seen and done since the last successful Refresh
  readings     \* the number of readings main has logged

sensorVars == <<Addr, mu, LastSample, TempPoly, heap, served, sinceAdjust>>
threadVars == <<pc, loc, ret>>
mainVars == <<flags, ppc, retries, bo, m, sleeping, logged, run, readings>>
vars ==
  <<Addr, mu, LastSample, TempPoly, heap, served, pc, loc, ret, sinceAdjust,
    flags, ppc, retries, bo, m, sleeping, logged, run, readings>>

NoLoc == [status |-> NIL, body |-> NoBody, coef |-> << >>, t |-> 0, cs |-> << >>]
NoRet == [op |-> "none", val |-> 0, err |-> "nil"]

\* The exported methods of Sensor.
Ops == {"TempAdjust", "Temp", "DewPoint", "Humidity", "Pressure", "AQIA", "AQIB", "Refresh"}

\* The first step of each method.
Entry(op) ==
  CASE op = "TempAdjust" -> "TempAdjustLock"
    [] op = "Temp" -> "TempLock"
    [] op = "DewPoint" -> "DewPointLock"
    [] op = "Humidity" -> "HumidityLock"
    [] op = "Pressure" -> "PressureLock"
    [] op = "AQIA" -> "AQIALock"
    [] op = "AQIB" -> "AQIBLock"
    [] op = "Refresh" -> "RefreshGet"

\* Thread t calls method op (with coef, for TempAdjust).
Invoke(t, op, coef) ==
  /\ pc' = [pc EXCEPT ![t] = Entry(op)]
  /\ loc' = [loc EXCEPT ![t] = [NoLoc EXCEPT !.coef = coef]]
  /\ ret' = [ret EXCEPT ![t] = NoRet]

\* Thread t returns val and err from method op: its locals are gone.
Return(t, op, val, err) ==
  /\ pc' = [pc EXCEPT ![t] = "ret"]
  /\ loc' = [loc EXCEPT ![t] = NoLoc]
  /\ ret' = [ret EXCEPT ![t] = [op |-> op, val |-> val, err |-> err]]

\* Thread t panics inside method op: a nil pointer dereference.
Panic(t, op) ==
  /\ pc' = [pc EXCEPT ![t] = "panic"]
  /\ ret' = [ret EXCEPT ![t] = [op |-> op, val |-> 0, err |-> "panic"]]

\* s.mu.Lock(): blocks until the mutex is free.
Lock(t, at, to) ==
  /\ pc[t] = at
  /\ mu = "free"
  /\ mu' = t
  /\ pc' = [pc EXCEPT ![t] = to]
  /\ UNCHANGED <<Addr, LastSample, TempPoly, heap, served, sinceAdjust, loc, ret>>
  /\ UNCHANGED mainVars

\* ------------------------------------------------------------- TempAdjust

TempAdjustLock(t) == Lock(t, "TempAdjustLock", "TempAdjustSet")

TempAdjustSet(t) ==
  /\ pc[t] = "TempAdjustSet"
  /\ TempPoly' = loc[t].coef
  /\ mu' = "free"
  /\ sinceAdjust' = 0
  /\ Return(t, "TempAdjust", 0, "nil")
  /\ UNCHANGED <<Addr, LastSample, heap, served>>
  /\ UNCHANGED mainVars

\* ---------------------------------------------------- Temp and DewPoint

\* The body of Temp and DewPoint between Lock and Unlock, for field f: the
\* mutex is released by a plain call, which a panic skips.
ReadCalibrated(t, at, to, op, f) ==
  /\ pc[t] = at
  /\ IF LastSample = NIL
       THEN /\ Panic(t, op)
            /\ UNCHANGED <<mu, loc>>
       ELSE /\ loc' = [loc EXCEPT ![t].t = heap[LastSample][f], ![t].cs = TempPoly]
            /\ mu' = "free"
            /\ pc' = [pc EXCEPT ![t] = to]
            /\ UNCHANGED ret
  /\ UNCHANGED <<Addr, LastSample, TempPoly, heap, served, sinceAdjust>>
  /\ UNCHANGED mainVars

\* ReturnCalibrated without the calibration: return float64(t)
ReturnRaw(t, at, op) ==
  /\ pc[t] = at
  /\ Return(t, op, loc[t].t, "nil")
  /\ UNCHANGED sensorVars
  /\ UNCHANGED mainVars

\* return actualTemp(cs, float64(t))
ReturnCalibrated(t, at, op) ==
  /\ pc[t] = at
  /\ Return(t, op, actualTemp(loc[t].cs, loc[t].t), "nil")
  /\ UNCHANGED sensorVars
  /\ UNCHANGED mainVars

TempLock(t) == Lock(t, "TempLock", "TempRead")

TempRead(t) == ReadCalibrated(t, "TempRead", "TempReturn", "Temp", "CurrentTempF")

TempReturn(t) == ReturnCalibrated(t, "TempReturn", "Temp")

DewPointLock(t) == Lock(t, "DewPointLock", "DewPointRead")

DewPointRead(t) ==
  ReadCalibrated(t, "DewPointRead", "DewPointReturn", "DewPoint", "CurrentDewpointF")

DewPointReturn(t) == ReturnCalibrated(t, "DewPointReturn", "DewPoint")

\* ----------------------------------- Humidity, Pressure, AQIA and AQIB

\* ReadField passing the field through the calibration polynomial.
ReadFieldCalibrated(t, at, op, f) ==
  /\ pc[t] = at
  /\ IF LastSample = NIL
       THEN Panic(t, op) /\ UNCHANGED loc
       ELSE Return(t, op, actualTemp(TempPoly, heap[LastSample][f]), "nil")
  /\ mu' = "free"
  /\ UNCHANGED <<Addr, LastSample, TempPoly, heap, served, sinceAdjust>>
  /\ UNCHANGED mainVars

\* The body of an accessor that returns field f as it is: the mutex is
\* released by a deferred call, which runs on a panic too.
ReadField(t, at, op, f) ==
  /\ pc[t] = at
  /\ IF LastSample = NIL
       THEN Panic(t, op) /\ UNCHANGED loc
       ELSE Return(t, op, heap[LastSample][f], "nil")
  /\ mu' = "free"
  /\ UNCHANGED <<Addr, LastSample, TempPoly, heap, served, sinceAdjust>>
  /\ UNCHANGED mainVars

HumidityLock(t) == Lock(t, "HumidityLock", "HumidityRead")

HumidityRead(t) == ReadField(t, "HumidityRead", "Humidity", "CurrentHumidity")

PressureLock(t) == Lock(t, "PressureLock", "PressureRead")

PressureRead(t) == ReadField(t, "PressureRead", "Pressure", "Pressure")

AQIALock(t) == Lock(t, "AQIALock", "AQIARead")

AQIARead(t) == ReadField(t, "AQIARead", "AQIA", "PM25Aqi")

AQIBLock(t) == Lock(t, "AQIBLock", "AQIBRead")

AQIBRead(t) == ReadField(t, "AQIBRead", "AQIB", "PM25AqiB")

\* ---------------------------------------------------------------- Refresh

\* RefreshGet with the mutex taken before the request is sent.
RefreshGetLocked(t) ==
  /\ pc[t] = "RefreshGet"
  /\ mu = "free"
  /\ \/ /\ Return(t, "Refresh", 0, "transport")
        /\ UNCHANGED <<served, mu>>
     \/ /\ served < MaxServed
        /\ served' = served + 1
        /\ mu' = t
        /\ \E b \in Bodies(served + 1) : loc' = [loc EXCEPT ![t].body = b]
        /\ pc' = [pc EXCEPT ![t] = "RefreshDecode"]
        /\ UNCHANGED ret
  /\ UNCHANGED <<Addr, LastSample, TempPoly, heap, sinceAdjust>>
  /\ UNCHANGED mainVars

\* http.Get: a transport error, or a response whose body is the device's
\* next document or something that does not decode.
RefreshGet(t) ==
  /\ pc[t] = "RefreshGet"
  /\ \/ /\ Return(t, "Refresh", 0, "transport")
        /\ UNCHANGED served
     \/ /\ served < MaxServed
        /\ served' = served + 1
        /\ \E b \in Bodies(served + 1) : loc' = [loc EXCEPT ![t].body = b]
        /\ pc' = [pc EXCEPT ![t] = "RefreshDecode"]
        /\ UNCHANGED ret
  /\ UNCHANGED <<Addr, mu, LastSample, TempPoly, heap, sinceAdjust>>
  /\ UNCHANGED mainVars

\* RefreshDecode with the error of Decode dropped: whatever was decoded goes
\* on to be installed.
RefreshDecodeUnchecked(t) ==
  /\ pc[t] = "RefreshDecode"
  /\ heap' = Append(heap, DecodeInto(loc[t].body, ZeroStatus))
  /\ pc' = [pc EXCEPT ![t] = "RefreshLock"]
  /\ loc' = [loc EXCEPT ![t].status = Len(heap) + 1]
  /\ UNCHANGED ret
  /\ UNCHANGED <<Addr, mu, LastSample, TempPoly, served, sinceAdjust>>
  /\ UNCHANGED mainVars

\* RefreshDecode decoding into the Status that is installed, when there is
\* one, instead of a new one.
RefreshDecodeInPlace(t) ==
  /\ pc[t] = "RefreshDecode"
  /\ IF LastSample = NIL
       THEN /\ heap' = Append(heap, DecodeInto(loc[t].body, ZeroStatus))
            /\ loc' = [loc EXCEPT ![t].status = Len(heap) + 1]
       ELSE /\ heap' = [heap EXCEPT ![LastSample] = DecodeInto(loc[t].body, @)]
            /\ loc' = [loc EXCEPT ![t].status = LastSample]
  /\ IF DecodeErr(loc[t].body) # "nil"
       THEN /\ pc' = [pc EXCEPT ![t] = "ret"]
            /\ ret' = [ret EXCEPT ![t] =
                         [op |-> "Refresh", val |-> 0, err |-> DecodeErr(loc[t].body)]]
       ELSE /\ pc' = [pc EXCEPT ![t] = "RefreshLock"]
            /\ UNCHANGED ret
  /\ UNCHANGED <<Addr, mu, LastSample, TempPoly, served, sinceAdjust>>
  /\ UNCHANGED mainVars

\* status := &Status{}; dec.Decode(status); return err if it failed: the new
\* object is then unreachable, and is dropped from the heap.
RefreshDecode(t) ==
  /\ pc[t] = "RefreshDecode"
  /\ IF DecodeErr(loc[t].body) # "nil"
       THEN /\ Return(t, "Refresh", 0, DecodeErr(loc[t].body))
            /\ UNCHANGED heap
       ELSE /\ heap' = Append(heap, DecodeInto(loc[t].body, ZeroStatus))
            /\ pc' = [pc EXCEPT ![t] = "RefreshLock"]
            /\ loc' = [loc EXCEPT ![t].status = Len(heap) + 1]
            /\ UNCHANGED ret
  /\ UNCHANGED <<Addr, mu, LastSample, TempPoly, served, sinceAdjust>>
  /\ UNCHANGED mainVars

RefreshLock(t) == Lock(t, "RefreshLock", "RefreshInstall")

\* RefreshInstall that installs only when nothing is cached yet.
RefreshInstallOnce(t) ==
  /\ pc[t] = "RefreshInstall"
  /\ LastSample' = IF LastSample = NIL THEN loc[t].status ELSE LastSample
  /\ mu' = "free"
  /\ sinceAdjust' = sinceAdjust + 1
  /\ Return(t, "Refresh", 0, "nil")
  /\ UNCHANGED <<Addr, TempPoly, heap, served>>
  /\ UNCHANGED mainVars

\* s.LastSample = status; return nil (the deferred Unlock runs).
RefreshInstall(t) ==
  /\ pc[t] = "RefreshInstall"
  /\ LastSample' = loc[t].status
  /\ mu' = "free"
  /\ sinceAdjust' = sinceAdjust + 1
  /\ Return(t, "Refresh", 0, "nil")
  /\ UNCHANGED <<Addr, TempPoly, heap, served>>
  /\ UNCHANGED mainVars

\* One step of thread t inside a method of Sensor.
SensorStep(t) ==
  \/ TempAdjustLock(t) \/ TempAdjustSet(t)
  \/ TempLock(t) \/ TempRead(t) \/ TempReturn(t)
  \/ DewPointLock(t) \/ DewPointRead(t) \/ DewPointReturn(t)
  \/ HumidityLock(t) \/ HumidityRead(t)
  \/ PressureLock(t) \/ PressureRead(t)
  \/ AQIALock(t) \/ AQIARead(t)
  \/ AQIBLock(t) \/ AQIBRead(t)
  \/ RefreshGet(t) \/ RefreshDecode(t) \/ RefreshLock(t) \/ RefreshInstall(t)

\* --------------------------------------------- a program sharing a Sensor

\* A client goroutine calls a method of the Sensor.
Call(t) ==
  /\ pc[t] \in {"idle", "ret"}
  /\ \E op \in Ops :
       \E c \in (IF op = "TempAdjust" THEN Coefs ELSE {<< >>}) : Invoke(t, op, c)
  /\ UNCHANGED sensorVars
  /\ UNCHANGED mainVars

NoReadings ==
  [t |-> 0, tC |-> <<0, 1>>, dew |-> 0, dewC |-> <<0, 1>>, pres |-> 0, hum |-> 0,
   aqiA |-> 0, aqiB |-> 0]

NoSleep == [kind |-> "none", d |-> DZero]
NoLog == [kind |-> "none", d |-> DZero, r |-> NoReadings]
NoRun == [fails |-> 0, fixed |-> 0, backoffs |-> 0]

\* The state of a process that has not run main.
MainIdle ==
  /\ flags = [sensor |-> "dev", poll |-> DZero, retry |-> 0, backoff |-> FALSE, coef |-> << >>]
  /\ ppc = "none"
  /\ retries = 0
  /\ bo = DZero
  /\ m = NoReadings
  /\ sleeping = NoSleep
  /\ logged = NoLog
  /\ run = NoRun
  /\ readings = 0

\* NewSensor(addr): only Addr is set.
NewSensor(addr) ==
  /\ Addr = addr
  /\ mu = "free"
  /\ LastSample = NIL
  /\ TempPoly = << >>
  /\ heap = << >>
  /\ served = 0
  /\ sinceAdjust = 0

\* A Sensor just made by NewSensor, shared by client goroutines.
Init ==
  /\ NewSensor("dev")
  /\ pc = [t \in Threads |-> "idle"]
  /\ loc = [t \in Threads |-> NoLoc]
  /\ ret = [t \in Threads |-> NoRet]
  /\ MainIdle

Next == \E t \in Clients : Call(t) \/ SensorStep(t)

Spec == Init /\ [][Next]_vars

\* ------------------------------------------------------ examples/query.go

\* One comma separated piece of --coef: a numeral and its value, or text
\* that strconv.ParseFloat rejects.
Num(v) == [ok |-> TRUE, val |-> v]
NotNum == [ok |-> FALSE, val |-> 0]

\* The values of --coef: empty, the default (a linear fit), one that does
\* not parse.
CoefFlags == {<< >>, <<Num(-9), Num(1)>>, <<Num(1), NotNum>>}

\* The values of --poll: one-shot, or an interval.
PollFlags == {DZero, Second}

Flags ==
  [sensor : {"", "dev"}, poll : PollFlags, retry : 0..MaxRetry, backoff : BOOLEAN,
   coef : CoefFlags]

\* retries >= 0: one retry too many.
CanRetryOffByOne(r) == r >= 0

\* retries > 0
CanRetry(r) == r > 0

\* if bo == 0 { bo = time.Second } else { bo *= 2 }
NextBackoff(d) == IF d = DZero THEN Second ELSE Double(d)

\* main up to NewSensor.
MainStart ==
  /\ ppc = "start"
  /\ IF flags.sensor = ""
       THEN /\ logged' = [NoLog EXCEPT !.kind = "fatal: --sensor is required"]
            /\ ppc' = "exit"
            /\ UNCHANGED Addr
       ELSE /\ Addr' = flags.sensor
            /\ ppc' = "coef"
            /\ UNCHANGED logged
  /\ UNCHANGED <<mu, LastSample, TempPoly, heap, served, sinceAdjust>>
  /\ UNCHANGED threadVars
  /\ UNCHANGED <<flags, retries, bo, m, sleeping, run, readings>>

\* main from the parsing of --coef to the call of TempAdjust.
MainCoef ==
  /\ ppc = "coef"
  /\ IF flags.coef = << >>
       THEN /\ ppc' = "init"
            /\ UNCHANGED <<threadVars, logged>>
       ELSE IF \E i \in 1..Len(flags.coef) : ~flags.coef[i].ok
              THEN /\ logged' = [NoLog EXCEPT !.kind = "fatal: failed to parse"]
                   /\ ppc' = "exit"
                   /\ UNCHANGED threadVars
              ELSE /\ Invoke(Main, "TempAdjust",
                             [i \in 1..Len(flags.coef) |-> flags.coef[i].val])
                   /\ ppc' = "init"
                   /\ UNCHANGED logged
  /\ UNCHANGED sensorVars
  /\ UNCHANGED <<flags, retries, bo, m, sleeping, run, readings>>

\* retries := *retry; bo := time.Duration(0)
MainInit ==
  /\ ppc = "init"
  /\ pc[Main] \in {"idle", "ret"}
  /\ retries' = flags.retry
  /\ bo' = DZero
  /\ ppc' = "loop"
  /\ UNCHANGED sensorVars
  /\ UNCHANGED threadVars
  /\ UNCHANGED <<flags, m, sleeping, logged, run, readings>>

\* The head of the loop: s.Refresh() is called.
MainRefresh ==
  /\ ppc = "loop"
  /\ run.fails < MaxFails
  /\ Invoke(Main, "Refresh", << >>)
  /\ ppc' = "refresh"
  /\ UNCHANGED sensorVars
  /\ UNCHANGED <<flags, retries, bo, m, sleeping, logged, run, readings>>

\* Refresh has returned an error to main.
RefreshFailed ==
  /\ ppc = "refresh"
  /\ pc[Main] = "ret"
  /\ ret[Main].err # "nil"

\* if retries > 0 { retries--; time.Sleep(1 * time.Second); continue }
MainRetry ==
  /\ RefreshFailed
  /\ CanRetry(retries)
  /\ retries' = retries - 1
  /\ sleeping' = [kind |-> "retry", d |-> Second]
  /\ run' = [run EXCEPT !.fails = @ + 1, !.fixed = @ + 1]
  /\ ppc' = "sleep"
  /\ UNCHANGED sensorVars
  /\ UNCHANGED threadVars
  /\ UNCHANGED <<flags, bo, m, logged, readings>>

\* MainFatal without the test of *backoff.
MainFatalWhateverBackoff ==
  /\ RefreshFailed
  /\ ~CanRetry(retries)
  /\ logged' = [NoLog EXCEPT !.kind = "fatal: failed to read sensor"]
  /\ run' = [run EXCEPT !.fails = @ + 1]
  /\ ppc' = "failed"
  /\ UNCHANGED sensorVars
  /\ UNCHANGED threadVars
  /\ UNCHANGED <<flags, retries, bo, m, sleeping, readings>>

\* if !*backoff { log.Fatalf(...) }
MainFatal ==
  /\ RefreshFailed
  /\ ~CanRetry(retries)
  /\ ~flags.backoff
  /\ logged' = [NoLog EXCEPT !.kind = "fatal: failed to read sensor"]
  /\ run' = [run EXCEPT !.fails = @ + 1]
  /\ ppc' = "failed"
  /\ UNCHANGED sensorVars
  /\ UNCHANGED threadVars
  /\ UNCHANGED <<flags, retries, bo, m, sleeping, readings>>

\* The backoff: bo is set, logged and slept.
MainBackoff ==
  /\ RefreshFailed
  /\ ~CanRetry(retries)
  /\ flags.backoff
  /\ bo' = NextBackoff(bo)
  /\ logged' = [NoLog EXCEPT !.kind = "retrying with backoff", !.d = bo']
  /\ sleeping' = [kind |-> "backoff", d |-> bo']
  /\ run' = [run EXCEPT !.fails = @ + 1, !.backoffs = @ + 1]
  /\ ppc' = "sleep"
  /\ UNCHANGED sensorVars
  /\ UNCHANGED threadVars
  /\ UNCHANGED <<flags, retries, m, readings>>

\* time.Sleep returns in a failure branch; continue.
MainWake ==
  /\ ppc = "sleep"
  /\ sleeping' = NoSleep
  /\ ppc' = "loop"
  /\ UNCHANGED sensorVars
  /\ UNCHANGED threadVars
  /\ UNCHANGED <<flags, retries, bo, m, logged, run, readings>>

\* Main is at `at` and the accessor it called there has returned: it keeps
\* the value and calls the next one.
MainNext(at, to, op, readings2) ==
  /\ ppc = at
  /\ pc[Main] = "ret"
  /\ m' = readings2
  /\ Invoke(Main, op, << >>)
  /\ ppc' = to
  /\ UNCHANGED sensorVars
  /\ UNCHANGED <<flags, retries, bo, sleeping, logged, readings>>

\* Refresh returned nil: t := s.Temp()
MainTemp ==
  /\ ret[Main].err = "nil"
  /\ run' = NoRun
  /\ MainNext("refresh", "temp", "Temp", NoReadings)

\* tC := pair.FtoC(t); dew := s.DewPoint()
MainDewPoint ==
  /\ MainNext("temp", "dew", "DewPoint",
              [m EXCEPT !.t = ret[Main].val, !.tC = FtoC(ret[Main].val)])
  /\ UNCHANGED run

\* dewC := pair.FtoC(dew); pres := s.Pressure()
MainPressure ==
  /\ MainNext("dew", "pres", "Pressure",
              [m EXCEPT !.dew = ret[Main].val, !.dewC = FtoC(ret[Main].val)])
  /\ UNCHANGED run

\* MainHumidity calling Pressure a second time.
MainHumidityFromPressure ==
  /\ MainNext("pres", "hum", "Pressure", [m EXCEPT !.pres = ret[Main].val])
  /\ UNCHANGED run

\* hum := s.Humidity()
MainHumidity ==
  /\ MainNext("pres", "hum", "Humidity", [m EXCEPT !.pres = ret[Main].val])
  /\ UNCHANGED run

\* aqiA := s.AQIA()
MainAQIA ==
  /\ MainNext("hum", "aqiA", "AQIA", [m EXCEPT !.hum = ret[Main].val])
  /\ UNCHANGED run

\* aqiB := s.AQIB()
MainAQIB ==
  /\ MainNext("aqiA", "aqiB", "AQIB", [m EXCEPT !.aqiA = ret[Main].val])
  /\ UNCHANGED run

\* MainLog without the break.
MainLogNoBreak ==
  /\ ppc = "aqiB"
  /\ pc[Main] = "ret"
  /\ m' = [m EXCEPT !.aqiB = ret[Main].val]
  /\ logged' = [NoLog EXCEPT !.kind = "reading", !.r = m']
  /\ readings' = readings + 1
  /\ ppc' = "pollsleep"
  /\ sleeping' = [kind |-> "poll", d |-> flags.poll]
  /\ UNCHANGED sensorVars
  /\ UNCHANGED threadVars
  /\ UNCHANGED <<flags, retries, bo, run>>

\* The reading is logged; break if *poll == 0, else time.Sleep(*poll).
MainLog ==
  /\ ppc = "aqiB"
  /\ pc[Main] = "ret"
  /\ m' = [m EXCEPT !.aqiB = ret[Main].val]
  /\ logged' = [NoLog EXCEPT !.kind = "reading", !.r = m']
  /\ readings' = readings + 1
  /\ IF flags.poll = DZero
       THEN /\ ppc' = "done"
            /\ UNCHANGED sleeping
       ELSE /\ ppc' = "pollsleep"
            /\ sleeping' = [kind |-> "poll", d |-> flags.poll]
  /\ UNCHANGED sensorVars
  /\ UNCHANGED threadVars
  /\ UNCHANGED <<flags, retries, bo, run>>

\* MainPollWake without bo = 0.
MainPollWakeKeepsBackoff ==
  /\ ppc = "pollsleep"
  /\ sleeping' = NoSleep
  /\ retries' = flags.retry
  /\ ppc' = "loop"
  /\ UNCHANGED sensorVars
  /\ UNCHANGED threadVars
  /\ UNCHANGED <<flags, bo, m, logged, run, readings>>

\* time.Sleep(*poll) returns; retries = *retry; bo = 0
MainPollWake ==
  /\ ppc = "pollsleep"
  /\ sleeping' = NoSleep
  /\ retries' = flags.retry
  /\ bo' = DZero
  /\ ppc' = "loop"
  /\ UNCHANGED sensorVars
  /\ UNCHANGED threadVars
  /\ UNCHANGED <<flags, m, logged, run, readings>>

MainStep ==
  \/ MainStart \/ MainCoef \/ MainInit \/ MainRefresh
  \/ MainRetry \/ MainFatal \/ MainBackoff \/ MainWake
  \/ MainTemp \/ MainDewPoint \/ MainPressure \/ MainHumidity \/ MainAQIA
  \/ MainAQIB \/ MainLog \/ MainPollWake

\* The process of examples/query.go, started with any flags.
PollerInit ==
  /\ NewSensor("")
  /\ pc = [t \in Threads |-> "idle"]
  /\ loc = [t \in Threads |-> NoLoc]
  /\ ret = [t \in Threads |-> NoRet]
  /\ flags \in Flags
  /\ ppc = "start"
  /\ retries = 0
  /\ bo = DZero
  /\ m = NoReadings
  /\ sleeping = NoSleep
  /\ logged = NoLog
  /\ run = NoRun
  /\ readings = 0

PollerNext == MainStep \/ SensorStep(Main)

PollerSpec == PollerInit /\ [][PollerNext]_vars

\* A step of main other than the return of http.Get, which waits for the
\* device.
MainLocal == MainStep \/ (pc[Main] # "RefreshGet" /\ SensorStep(Main))

\* main is the only goroutine: it takes the steps that wait for nothing but
\* itself (an uncontended Lock, a sleep that ends) whenever it can.
PollerFair == PollerSpec /\ WF_vars(MainLocal)

\* ----------------------------------------------------------------- claims

RefreshPcs == {"RefreshGet", "RefreshDecode", "RefreshLock", "RefreshInstall"}

\* The cached snapshot: the pointer and what it points to.
Snapshot == IF LastSample = NIL THEN <<NIL, ZeroStatus>> ELSE <<LastSample, heap[LastSample]>>

\* The n-th document of the device, whole.
Doc(n) == [f \in Fields |-> DocValue(n, f)]

\* In this step thread t, inside Refresh, returns an error.
RefreshFails(t) == pc[t] \in RefreshPcs /\ pc'[t] = "ret" /\ ret'[t].err # "nil"

\* In this step thread t, inside Refresh, returns nil.
RefreshSucceeds(t) == pc[t] \in RefreshPcs /\ pc'[t] = "ret" /\ ret'[t].err = "nil"

\* Thread t is about to decode a body that does not decode.
Undecodable(t) ==
  pc[t] = "RefreshDecode" /\ (loc[t].body.syntax \/ loc[t].body.bad # {})

\* C1: a Refresh call whose fetch fails or whose body does not decode
\* returns a non-nil error, and no step of a Refresh call other than the
\* one that returns nil changes the cached snapshot or the coefficients; the
\* snapshot changes only in the step of a Refresh call that returns nil.
C1_FailedRefreshKeepsSnapshot ==
  [][/\ \A t \in Clients :
          /\ Undecodable(t) /\ pc'[t] # pc[t] => RefreshFails(t)
          /\ pc[t] \in RefreshPcs /\ pc'[t] # pc[t] /\ ~RefreshSucceeds(t)
               => Snapshot' = Snapshot /\ TempPoly' = TempPoly
          /\ RefreshFails(t) => ret'[t].err \in {"transport", "decode"}
     /\ Snapshot' # Snapshot => \E t \in Clients : RefreshSucceeds(t)]_vars

\* C1 witness: a Refresh call has returned a decode error while a snapshot
\* installed earlier is still cached, whole.
C1_Witness ==
  \E t \in Clients :
    /\ pc[t] = "ret" /\ ret[t].op = "Refresh" /\ ret[t].err = "decode"
    /\ LastSample # NIL /\ heap[LastSample] = Doc(1) /\ served = 2

\* Every Status of the heap stays as it is.
HeapImmutable == \A a \in 1..Len(heap) : heap'[a] = heap[a]

\* The accessors that return a field as it is, and the field of each.
Projections ==
  [Humidity |-> "CurrentHumidity", Pressure |-> "Pressure", AQIA |-> "PM25Aqi",
   AQIB |-> "PM25AqiB"]

\* The value thread t's step reads out of a snapshot is that field of one
\* whole document.
ReadsWhole(t) ==
  /\ pc[t] \in {"TempRead", "DewPointRead"} /\ pc'[t] \in {"TempReturn", "DewPointReturn"}
       => \E n \in DocIds :
            loc'[t].t = DocValue(n, IF pc[t] = "TempRead" THEN "CurrentTempF"
                                                          ELSE "CurrentDewpointF")
  /\ pc[t] \in {"HumidityRead", "PressureRead", "AQIARead", "AQIBRead"} /\ pc'[t] = "ret"
       => \E n \in DocIds : ret'[t].val = DocValue(n, Projections[ret'[t].op])

\* C2: with Refresh and the accessors running concurrently, the installed
\* snapshot is always one whole document of one fetch, no Status is changed
\* once it is in the heap, and what an accessor reads is a field of a whole
\* document.
C2_SnapshotNeverTorn ==
  /\ [](LastSample # NIL => \E n \in DocIds : heap[LastSample] = Doc(n))
  /\ [][HeapImmutable /\ \A t \in Clients : ReadsWhole(t)]_vars

\* C2 witness: a second Refresh has decoded its document and not yet
\* installed it, while another thread has read the first snapshot.
C2_Witness ==
  \E t, u \in Clients :
    /\ pc[t] = "RefreshLock" /\ loc[t].status = 2 /\ heap[2] = Doc(2)
    /\ LastSample = 1 /\ heap[1] = Doc(1)
    /\ pc[u] = "ret" /\ ret[u].op = "Humidity"
    /\ ret[u].val = DocValue(1, "CurrentHumidity")

Accessors == {"Temp", "DewPoint", "Humidity", "Pressure", "AQIA", "AQIB"}

\* C3 (as the claim states it): while no Refresh has succeeded, an accessor
\* call returns normally, with the zero value of its field (calibrated, for
\* Temp and DewPoint).
C3_AccessorsReturnZeroBeforeRefresh ==
  LastSample = NIL =>
    \A t \in Clients :
      /\ pc[t] # "panic"
      /\ pc[t] = "ret" /\ ret[t].op \in Accessors
           => /\ ret[t].err = "nil"
              /\ \E c \in Coefs : ret[t].val = actualTemp(c, 0)

\* The failures of main's current run are exactly those of --retry=N with
\* no backoff that end in the fatal exit.
FailedAfterRetries ==
  /\ ppc = "failed"
  /\ run.fixed = flags.retry
  /\ run.backoffs = 0
  /\ sleeping = NoSleep
  /\ pc[Main] = "ret"
  /\ ~ENABLED PollerNext

\* C4: with backoff disabled, N+1 consecutive failures end in the fatal
\* exit after exactly N sleeps of one second and no backoff sleep, and no
\* Refresh is called after it; before that each failure sleeps one second.
C4_RetriesThenFatal ==
  ~flags.backoff =>
    /\ run.fails <= flags.retry + 1
    /\ run.fails = flags.retry + 1 <=> ppc = "failed"
    /\ ppc = "failed" => FailedAfterRetries
    /\ ppc = "sleep" => sleeping = [kind |-> "retry", d |-> Second] /\ run.fixed = run.fails

\* C4 witness: after a successful reading, three failures with --retry=2
\* have ended in the fatal exit.
C4_Witness ==
  /\ ~flags.backoff /\ flags.retry = 2 /\ readings = 1
  /\ ppc = "failed" /\ run.fails = 3 /\ run.fixed = 2

\* A natural number as limbs, least significant first, as many as it needs.
RECURSIVE BigDoubleFrom(_, _, _)
BigDoubleFrom(b, i, carry) ==
  IF i > Len(b)
    THEN IF carry = 0 THEN << >> ELSE <<carry>>
    ELSE <<(2 * b[i] + carry) % Limb>> \o BigDoubleFrom(b, i + 1, (2 * b[i] + carry) \div Limb)

\* 10^9 * 2^k, the nanoseconds of 2^k seconds, as a natural number.
RECURSIVE BigSeconds(_)
BigSeconds(k) ==
  IF k = 0 THEN <<51712, 15258>> ELSE BigDoubleFrom(BigSeconds(k - 1), 1, 0)

\* The limbs of d without the zero limbs at its top.
RECURSIVE Strip(_)
Strip(d) ==
  IF d # << >> /\ d[Len(d)] = 0 THEN Strip(SubSeq(d, 1, Len(d) - 1)) ELSE d

\* The Duration d is 2^k seconds.
IsSeconds(d, k) == ~Negative(d) /\ Strip(d) = BigSeconds(k)

\* The top limb of d as a signed number.
Top(d) == IF Negative(d) THEN d[4] - Limb ELSE d[4]

\* d1 < d2, as signed 64 bit numbers.
Less(d1, d2) ==
  \/ Top(d1) < Top(d2)
  \/ /\ Top(d1) = Top(d2)
     /\ \E i \in 1..3 : d1[i] < d2[i] /\ \A j \in (i + 1)..3 : d1[j] = d2[j]

\* C5 (as the claim states it): with backoff enabled, each of the first N
\* failures of a run sleeps one second, and failure N+k sleeps a backoff of
\* 2^(k-1) seconds.
C5_BackoffDelaysDouble ==
  flags.backoff /\ ppc = "sleep" =>
    IF run.fails <= flags.retry
      THEN sleeping = [kind |-> "retry", d |-> Second]
      ELSE /\ sleeping.kind = "backoff"
           /\ IsSeconds(sleeping.d, run.fails - flags.retry - 1)

\* C6 (as the claim states it): in polling mode the sleep after a reading
\* sets retries to N and bo to 0, the first failure after a success finds
\* them so, and no other step of the loop raises retries or lowers bo.
C6_ResetOnlyAfterSuccess ==
  [][flags.poll # DZero /\ ppc' # ppc =>
       /\ ppc = "pollsleep" => retries' = flags.retry /\ bo' = DZero
       /\ RefreshFailed /\ run.fails = 0 => retries = flags.retry /\ bo = DZero
       /\ ppc \notin {"pollsleep", "init"} => retries' <= retries /\ ~Less(bo', bo)]_vars

\* C7 (as the claim states it): in one-shot mode, whatever --backoff is, a
\* run whose first attempt and N retries have all failed is in the fatal exit.
C7_OneShotExhaustedIsFatal ==
  flags.poll = DZero /\ run.fails >= flags.retry + 1 => ppc = "failed"

\* C8: in polling mode with backoff enabled main never takes the fatal
\* exit: every failure of Refresh is followed by a sleep, and the sleep by
\* the next call of Refresh.
C8_PollingBackoffNeverFatal ==
  /\ [](flags.poll # DZero /\ flags.backoff =>
          /\ ppc # "failed"
          /\ RefreshFailed => ENABLED (MainRetry \/ MainBackoff)
          /\ ppc = "sleep" => ENABLED MainWake)
  /\ [][flags.poll # DZero /\ flags.backoff /\ ppc' # ppc =>
          /\ RefreshFailed => ppc' = "sleep" /\ sleeping'.kind \in {"retry", "backoff"}
          /\ ppc = "sleep" => ppc' = "loop"
          /\ ppc = "loop" => ppc' = "refresh" /\ pc'[Main] = "RefreshGet"]_vars

\* C8 witness: in polling mode with backoff enabled, Refresh is called
\* again after the retries and two backoff sleeps.
C8_Witness ==
  /\ flags.poll # DZero /\ flags.backoff /\ flags.retry = 1
  /\ run.fails = 3 /\ run.backoffs = 2
  /\ ppc = "refresh" /\ pc[Main] = "RefreshGet"

\* Refresh has returned nil to main.
RefreshOk == ppc = "refresh" /\ pc[Main] = "ret" /\ ret[Main].err = "nil"

\* C9: with --poll=0, once Refresh has succeeded main calls only the
\* accessors, logs one reading and is done; done, it has logged exactly one
\* reading and takes no further step; and a successful Refresh leads to done.
C9_OneShotDone ==
  /\ [](flags.poll = DZero =>
          /\ readings <= 1
          /\ LastSample # NIL =>
               /\ ppc \in {"refresh", "temp", "dew", "pres", "hum", "aqiA", "aqiB", "done"}
               /\ pc[Main] \notin RefreshPcs \ {"RefreshInstall"}
               /\ ppc = "refresh" => pc[Main] = "ret"
          /\ ppc = "done" => readings = 1 /\ logged.kind = "reading" /\ ~ENABLED PollerNext
          /\ ppc # "done" => readings = 0)
  /\ (flags.poll = DZero /\ RefreshOk ~> ppc = "done")

\* C9 witness: a one-shot run is done after two failures and a success.
C9_Witness ==
  /\ flags.poll = DZero /\ ppc = "done" /\ readings = 1 /\ served = 2
  /\ logged.r.hum = DocValue(2, "CurrentHumidity")

RECURSIVE Pow(_, _)
Pow(x, n) == IF n = 0 THEN 1 ELSE x * Pow(x, n - 1)

RECURSIVE PolySum(_, _, _)
\* The sum of c[i] * x^(i-1) for i = 1..n.
PolySum(c, x, n) == IF n = 0 THEN 0 ELSE PolySum(c, x, n - 1) + c[n] * Pow(x, n - 1)

\* The polynomial c at x; no coefficients stand for the identity.
Poly(c, x) == IF c = << >> THEN x ELSE PolySum(c, x, Len(c))

\* C10: TempAdjust(c) makes c the coefficients and nothing else changes
\* them; every Temp and DewPoint call reads the coefficients and the raw
\* value of the cached snapshot as they are at that moment, and returns the
\* polynomial of those coefficients at that raw value.
C10_CalibrationAppliedAtEachCall ==
  [][/\ \A t \in Clients :
          /\ pc[t] = "TempAdjustSet" /\ pc'[t] # pc[t] => TempPoly' = loc[t].coef
          /\ pc[t] = "TempRead" /\ pc'[t] = "TempReturn"
               => /\ loc'[t].cs = TempPoly
                  /\ loc'[t].t = heap[LastSample]["CurrentTempF"]
          /\ pc[t] = "DewPointRead" /\ pc'[t] = "DewPointReturn"
               => /\ loc'[t].cs = TempPoly
                  /\ loc'[t].t = heap[LastSample]["CurrentDewpointF"]
          /\ pc[t] \in {"TempReturn", "DewPointReturn"} /\ pc'[t] # pc[t]
               => /\ pc'[t] = "ret"
                  /\ ret'[t].val = Poly(loc[t].cs, loc[t].t)
     /\ TempPoly' # TempPoly => \E t \in Clients : pc[t] = "TempAdjustSet" /\ pc'[t] = "ret"]_vars

\* C10 witness: with no Refresh since the last TempAdjust, Temp has returned
\* the new polynomial of the raw value cached before it.
C10_Witness ==
  \E t \in Clients :
    /\ sinceAdjust = 0 /\ LastSample # NIL /\ TempPoly = <<1, 0, 2>>
    /\ pc[t] = "ret" /\ ret[t].op = "Temp"
    /\ ret[t].val = 1 + 2 * heap[LastSample]["CurrentTempF"] * heap[LastSample]["CurrentTempF"]

\* ------------------------------------------------- the polynomial alone

\* Every coefficient sequence of at most MaxLen coefficients.
CoefSeqs == UNION {[1..n -> -MaxCoef..MaxCoef] : n \in 0..MaxLen}

RawValues == -MaxRaw..MaxRaw

\* A Sensor calibrated with some coefficients and holding a snapshot with
\* some raw temperature and dew point, on which goroutine "a" calls Temp or
\* DewPoint.
CalcInit ==
  /\ Addr = "dev"
  /\ mu = "free"
  /\ TempPoly \in CoefSeqs
  /\ \E x \in RawValues :
       heap = <<[ZeroStatus EXCEPT !["CurrentTempF"] = x, !["CurrentDewpointF"] = -x]>>
  /\ LastSample = 1
  /\ served = 1
  /\ sinceAdjust = 0
  /\ pc \in {[t \in Threads |-> IF t = "a" THEN at ELSE "idle"] : at \in {"TempLock", "DewPointLock"}}
  /\ loc = [t \in Threads |-> NoLoc]
  /\ ret = [t \in Threads |-> NoRet]
  /\ MainIdle

CalcNext ==
  \/ TempLock("a")
  \/ TempRead("a")
  \/ TempReturn("a")
  \/ DewPointLock("a")
  \/ DewPointRead("a")
  \/ DewPointReturn("a")

CalcSpec == CalcInit /\ [][CalcNext]_vars

\* The raw value the call of goroutine "a" is about.
RawOf(op) ==
  IF op = "Temp" THEN heap[LastSample]["CurrentTempF"] ELSE heap[LastSample]["CurrentDewpointF"]

\* C11: actualTemp(c, x) is the sum over i of c[i] * x^i, the coefficients
\* counted from 0; with no coefficients it is x itself, and with the one
\* coefficient c0 it is c0 whatever x is.
C11_ActualTempIsPolynomial ==
  pc["a"] = "ret"
    => /\ ret["a"].val = IF TempPoly = << >>
                           THEN RawOf(ret["a"].op)
                           ELSE PolySum(TempPoly, RawOf(ret["a"].op), Len(TempPoly))
       /\ Len(TempPoly) = 1 => ret["a"].val = TempPoly[1]

\* C11 witness: three coefficients at a negative raw value,
\* 1 - 2x + 2x^2 at x = -3 is 25.
C11_Witness ==
  /\ pc["a"] = "ret" /\ ret["a"].op = "Temp"
  /\ TempPoly = <<1, -2, 2>> /\ heap[1]["CurrentTempF"] = -3
  /\ ret["a"].val = 25

\* C12 (as the claim states it): whenever main sleeps after a failed Refresh,
\* in the retry branch or in the backoff branch, the last line it logged
\* records the failure and the delay of that sleep.
C12_FailureSleepIsLogged ==
  ppc = "sleep"
    => /\ logged.kind \notin {"none", "reading"}
       /\ logged.d = sleeping.d

\* The places of Refresh where the request is in flight or the body is
\* being decoded.
Fetching == {"RefreshGet", "RefreshDecode"}

\* Thread t is inside a method of Sensor.
InCall(t) == pc[t] \notin {"idle", "ret", "panic"}

\* C13: a goroutine inside Refresh holds the mutex only at the install, never
\* while it fetches or decodes; so while one goroutine fetches, another that
\* is inside an accessor or TempAdjust can always take its next step.
C13_FetchOutsideMutex ==
  \A t \in Clients :
    /\ pc[t] \in RefreshPcs /\ mu = t => pc[t] = "RefreshInstall"
    /\ pc[t] \in Fetching
         => \A u \in Clients \ {t} :
              InCall(u) /\ pc[u] \notin RefreshPcs => ENABLED SensorStep(u)

\* C13 witness: Humidity holds the mutex and reads an installed snapshot
\* while the other goroutine is between its fetch and its decode.
C13_Witness ==
  \E t \in Clients, u \in Clients :
    /\ pc[t] = "RefreshDecode" /\ pc[u] = "HumidityRead" /\ mu = u /\ LastSample # NIL

\* C14 (as the claim states it): every backoff delay is a positive number of
\* nanoseconds, and after the first of a run each is exactly twice the one
\* before it: the doubling never wraps, never gives zero or a negative
\* delay, and never starts again from one second while the failures go on.
C14_BackoffNeverWraps ==
  [][ppc = "refresh" /\ ppc' = "sleep" /\ sleeping'.kind = "backoff"
       => /\ ~Negative(sleeping'.d)
          /\ sleeping'.d # DZero
          /\ run.backoffs >= 1
               => /\ Strip(sleeping'.d) = BigDoubleFrom(Strip(bo), 1, 0)
                  /\ Less(bo, sleeping'.d)
                  /\ sleeping'.d # Second]_vars

\* The eight values main logs for the Status st under the coefficients c.
ReadingOf(st, c) ==
  [t    |-> Poly(c, st["CurrentTempF"]),
   tC   |-> <<(Poly(c, st["CurrentTempF"]) - 32) * 5, 9>>,
   dew  |-> Poly(c, st["CurrentDewpointF"]),
   dewC |-> <<(Poly(c, st["CurrentDewpointF"]) - 32) * 5, 9>>,
   pres |-> st["Pressure"],
   hum  |-> st["CurrentHumidity"],
   aqiA |-> st["PM25Aqi"],
   aqiB |-> st["PM25AqiB"]]

\* Main is between a Refresh that returned nil and the line that logs it.
ReadingDue ==
  \/ RefreshOk
  \/ ppc \in {"temp", "dew", "pres", "hum", "aqiA", "aqiB"}

\* C15: main logs one reading for each Refresh that returned nil and none
\* for a Refresh that failed: the number of readings is the number of
\* snapshots installed, less the one whose line is still due. Main being
\* the only caller of Refresh, the values of a reading are those of the
\* document that Refresh fetched and installed, the two temperatures under
\* the coefficients in force.
C15_OneReadingPerSuccess ==
  /\ [](sinceAdjust = readings + (IF ReadingDue THEN 1 ELSE 0))
  /\ [][/\ readings' # readings \/ (logged' # logged /\ logged'.kind = "reading")
            => /\ ppc = "aqiB"
               /\ readings' = readings + 1
               /\ logged'.kind = "reading"
               /\ LastSample = Len(heap)
               /\ heap[LastSample] = Doc(served)
               /\ logged'.r = ReadingOf(Doc(served), TempPoly)
         /\ \E t \in Threads : RefreshFails(t)
            => readings' = readings /\ logged'.kind # "reading"]_vars

\* C15 witness: polling, the first Refresh failed and the second did not;
\* one reading is logged, with the values of the second document.
C15_Witness ==
  /\ flags.poll # DZero /\ ppc = "pollsleep" /\ readings = 1 /\ served = 2
  /\ logged.kind = "reading" /\ logged.r = ReadingOf(Doc(2), TempPoly)
  /\ TempPoly = <<-9, 1>>

TempAdjustPcs == {"TempAdjustLock", "TempAdjustSet"}

AccessorPcs ==
  {"TempLock", "TempRead", "TempReturn", "DewPointLock", "DewPointRead", "DewPointReturn",
   "HumidityLock", "HumidityRead", "PressureLock", "PressureRead",
   "AQIALock", "AQIARead", "AQIBLock", "AQIBRead"}

\* C16: of the address, the snapshot and the coefficients of a Sensor, a
\* step of TempAdjust changes only the coefficients, a step of Refresh
\* changes neither the coefficients nor the address, and a step of an
\* accessor changes none of the three; Humidity, Pressure, AQIA and AQIB
\* return the field of the snapshot as it is, whatever the coefficients.
C16_FrameConditions ==
  [][\A t \in Clients :
       pc'[t] # pc[t]
         => /\ Addr' = Addr
            /\ pc[t] \in TempAdjustPcs => LastSample' = LastSample /\ heap' = heap
            /\ pc[t] \in RefreshPcs => TempPoly' = TempPoly
            /\ pc[t] \in AccessorPcs
                 => TempPoly' = TempPoly /\ LastSample' = LastSample /\ heap' = heap
            /\ pc[t] \in {"HumidityRead", "PressureRead", "AQIARead", "AQIBRead"}
                 /\ pc'[t] = "ret"
                 => ret'[t].val = heap[LastSample][Projections[ret'[t].op]]]_vars

\* C16 witness: after a Refresh and then a TempAdjust to 1 + 2x^2, Humidity
\* has returned the humidity of the snapshot unchanged.
C16_Witness ==
  \E t \in Clients :
    /\ LastSample # NIL /\ sinceAdjust = 0 /\ TempPoly = <<1, 0, 2>>
    /\ pc[t] = "ret" /\ ret[t].op = "Humidity" /\ ret[t].err = "nil"
    /\ ret[t].val = heap[LastSample]["CurrentHumidity"]

\* C17: with --retry=N, N >= 0, the retry counter of main stays between 0
\* and N, and the backoff duration is other than zero only while the
\* counter is 0.
C17_RetriesAndBackoffInvariant ==
  /\ 0 <= retries /\ retries <= flags.retry
  /\ bo # DZero => retries = 0

\* C17 witness: with --retry=2 main has used both retries and sleeps a
\* second backoff.
C17_Witness ==
  /\ flags.retry = 2 /\ retries = 0 /\ run.fixed = 2 /\ run.backoffs = 2
  /\ ppc = "sleep" /\ bo = Double(Second)

\* The places between a Lock and the Unlock that follows it.
CriticalPcs ==
  {"TempAdjustSet", "TempRead", "DewPointRead", "HumidityRead", "PressureRead",
   "AQIARead", "AQIBRead", "RefreshInstall"}

\* C18 (as the claim states it): the mutex is held only by a goroutine that
\* is inside a critical section, which it will leave; no call that has
\* ended, by a return or by a panic, has left the mutex locked, so no later
\* call waits for it for ever.
C18_MutexReleasedOnEveryExit ==
  \A t \in Clients : mu = t => pc[t] \in CriticalPcs

\* The number of the document the Status st was decoded from: the order in
\* which the device served it.
Freshness(st) == CHOOSE n \in DocIds : st = Doc(n)

\* C19 (as the claim states it): whenever the cached snapshot is replaced,
\* with Refresh calls one after another or two at once, the new snapshot
\* was fetched later than the one it replaces.
C19_FreshnessNeverGoesBack ==
  [][LastSample # NIL /\ LastSample' # LastSample
       => Freshness(heap'[LastSample']) > Freshness(heap[LastSample])]_vars

\* C19 (amended): a Refresh that returns nil has installed the document it
\* fetched itself; if no other call has fetched from the device since, as
\* is always so when Refresh calls do not overlap, that document is the
\* latest one fetched and is later than the snapshot it replaces.
C19_FreshWhenNotOvertaken ==
  [][\A t \in Clients :
       RefreshSucceeds(t)
         => /\ LastSample' = loc[t].status
            /\ heap'[LastSample'] = Doc(loc[t].body.id)
            /\ loc[t].body.id = served
                 => /\ \A a \in 1..Len(heap) : Freshness(heap[a]) <= served
                    /\ LastSample # NIL => Freshness(heap[LastSample]) < served]_vars

\* C19 witness: one goroutine has fetched and installed the second document
\* over the first, with no other Refresh under way.
C19_Witness ==
  \E t \in Clients :
    /\ pc[t] = "ret" /\ ret[t].op = "Refresh" /\ ret[t].err = "nil"
    /\ \A u \in Clients : pc[u] \notin RefreshPcs
    /\ Len(heap) = 2 /\ LastSample = 2 /\ heap[LastSample] = Doc(2) /\ served = 2

====
